---- MODULE Spec2Model ----
(***************************************************************************)
(* A model of src/main.py: the bounded depth-first Wikipedia crawl         *)
(* (scrape_all_links_and_content.crawl), the heading-sectioning loop of    *)
(* extract_article_content and the URL classifier is_valid_article.        *)
(***************************************************************************)
EXTENDS Integers, Sequences, FiniteSets, TLC

(***************************************************************************)
(* Bounds of the model.                                                    *)
(***************************************************************************)
NumUrls == 2
MaxLinks == 2
MaxDepth == 1
MaxCount == 2

URLs == 1..NumUrls

\* The values get_all_links can return: lists of URLs, repeats allowed.
LinkLists == UNION {[1..n -> URLs] : n \in 0..MaxLinks}

Range(s) == {s[i] : i \in 1..Len(s)}

VARIABLES
    mode,        \* which function of main.py is running: "crawl", "extract", "classify"
    start_url,   \* scrape_all_links_and_content: start_url
    depth,       \* scrape_all_links_and_content: depth (the maximum depth)
    max_urls,    \* scrape_all_links_and_content: max_urls
    visited,     \* the set `visited`
    results,     \* the keys of the dict `results`, in insertion order
    stack,       \* the call stack of crawl(): one frame per active call
    visitLog,    \* history: every visited.add, in order, with its depth
    extractLog,  \* history: every extract_article_content call made by crawl
    linksLog,    \* history: every get_all_links call made by crawl
    encountered, \* history: start_url and every URL get_all_links has returned
    shallow,     \* history: the URLs returned for pages above the maximum depth
    doc,         \* extract_article_content: the fetched page (response, h1, content div)
    epc,         \* extract_article_content: position in its body
    pos,         \* extract_article_content: index of the for loop over the children
    title,       \* extract_article_content: title
    content,     \* extract_article_content: content
    current_heading,  \* extract_article_content: current_heading
    current_content,  \* extract_article_content: current_content
    article,     \* extract_article_content: the returned value, once returned
    href,        \* is_valid_article: url
    valid        \* is_valid_article: the returned value, once returned

crawlVars == <<start_url, depth, max_urls, visited, results, stack,
               visitLog, extractLog, linksLog, encountered, shallow>>

extractVars == <<doc, epc, pos, title, content, current_heading, current_content,
                 article>>

classifyVars == <<href, valid>>

vars == <<mode, crawlVars, extractVars, classifyVars>>

\* What no step of crawl() changes: its parameters and the other functions.
fixedVars == <<mode, start_url, depth, max_urls, extractVars, classifyVars>>

\* Python's None and a present value, as a sequence of length 0 or 1.
None == <<>>
Some(x) == <<x>>

\* The variables of a function that is not running.
CrawlIdle ==
    /\ start_url = 0 /\ depth = 0 /\ max_urls = 0
    /\ visited = {} /\ results = <<>> /\ stack = <<>>
    /\ visitLog = <<>> /\ extractLog = <<>> /\ linksLog = <<>>
    /\ encountered = {} /\ shallow = {}

ExtractIdle ==
    /\ doc = None /\ epc = "idle" /\ pos = 0 /\ title = <<>> /\ content = <<>>
    /\ current_heading = <<>> /\ current_content = <<>> /\ article = None

ClassifyIdle == href = <<>> /\ valid = "unset"

----------------------------------------------------------------------------
(***************************************************************************)
(* scrape_all_links_and_content and its nested crawl().                    *)
(***************************************************************************)

\* A frame of crawl(current_url, current_depth); pc is the position in its body.
Frame(u, d) == [current_url |-> u, current_depth |-> d, pc |-> "entry",
                links |-> <<>>, idx |-> 1]

Top == stack[Len(stack)]

\* Variants of the count test: off by one, and absent.
ReachedMax_off == Len(results) > max_urls
ReachedMax_never == FALSE

\* len(results) >= max_urls (line 166; line 185 tests its negation).
ReachedMax == Len(results) >= max_urls

\* A variant of the membership test that never finds the URL.
IsVisited_never(u) == FALSE

\* current_url in visited (line 168; line 184 tests its negation).
IsVisited(u) == u \in visited

\* Variants of the depth test: absent, and off by one.
TooDeep_never(d) == FALSE
TooDeep_off(d) == d >= depth

\* current_depth > depth (line 167).
TooDeep(d) == d > depth

\* The early return of crawl (lines 166-169).
ReturnsEarly(u, d) == ReachedMax \/ TooDeep(d) \/ IsVisited(u)

\* A variant that replaces the set instead of adding to it.
MarkVisited_replace(u) == {u}

\* visited.add(current_url) (line 171).
MarkVisited(u) == visited \cup {u}

\* A variant that puts the new key first.
InsertResult_front(r, u) == IF u \in Range(r) THEN r ELSE <<u>> \o r

\* results[current_url] = article_content (line 177): a dict keeps a key's
\* first insertion position.
InsertResult(r, u) == IF u \in Range(r) THEN r ELSE Append(r, u)

\* A variant that skips get_all_links when extraction returned None.
AfterExtract_abort(ok) == IF ok THEN "links" ELSE "loop"

\* Where crawl goes on after extraction (lines 176-180): to get_all_links,
\* whether or not article_content was None.
AfterExtract(ok) == "links"

\* The test of the for loop's body (lines 184-185).
ShouldRecurse(link) == ~IsVisited(link) /\ ~ReachedMax

\* A return of the top call: the caller's for loop moves to its next link.
Return(s) ==
    IF Len(s) = 1 THEN <<>>
    ELSE LET n == Len(s) - 1
         IN [SubSeq(s, 1, n) EXCEPT ![n].idx = @ + 1, ![n].pc = "loop"]

SetTop(f) == [stack EXCEPT ![Len(stack)] = f]

\* The state at the call crawl(start_url, 0) of line 188.  URLs are only ever
\* compared for equality, so the seed is URL 1 without loss; the links range
\* over all URLs, the seed included.
Init ==
    /\ mode = "crawl"
    /\ start_url = 1
    /\ depth \in 0..MaxDepth
    /\ max_urls \in 1..MaxCount
    /\ visited = {}
    /\ results = <<>>
    /\ stack = <<Frame(start_url, 0)>>
    /\ visitLog = <<>>
    /\ extractLog = <<>>
    /\ linksLog = <<>>
    /\ encountered = {start_url}
    /\ shallow = {}
    /\ ExtractIdle
    /\ ClassifyIdle

\* Lines 166-169: the guard holds and the call returns.
CrawlReturnEarly ==
    /\ mode = "crawl" /\ stack # <<>> /\ Top.pc = "entry"
    /\ ReturnsEarly(Top.current_url, Top.current_depth)
    /\ stack' = Return(stack)
    /\ UNCHANGED <<fixedVars, visited, results,
                   visitLog, extractLog, linksLog, encountered, shallow>>

\* Lines 166-172: the guard fails and the URL is marked visited.
CrawlVisit ==
    /\ mode = "crawl" /\ stack # <<>> /\ Top.pc = "entry"
    /\ ~ReturnsEarly(Top.current_url, Top.current_depth)
    /\ visited' = MarkVisited(Top.current_url)
    /\ visitLog' = Append(visitLog, [url |-> Top.current_url,
                                     depth |-> Top.current_depth])
    /\ stack' = SetTop([Top EXCEPT !.pc = "extract"])
    /\ UNCHANGED <<fixedVars, results, extractLog, linksLog,
                   encountered, shallow>>

\* Lines 175-177: extract_article_content returns an article (ok) or None.
CrawlExtract ==
    /\ mode = "crawl" /\ stack # <<>> /\ Top.pc = "extract"
    /\ \E ok \in BOOLEAN :
        /\ results' = IF ok THEN InsertResult(results, Top.current_url) ELSE results
        /\ extractLog' = Append(extractLog, [url |-> Top.current_url,
                                             depth |-> Top.current_depth, ok |-> ok])
        /\ stack' = SetTop([Top EXCEPT !.pc = AfterExtract(ok)])
    /\ UNCHANGED <<fixedVars, visited, visitLog, linksLog,
                   encountered, shallow>>

\* Line 180 with lines 130-144: get_all_links returns the page's links.
CrawlLinks ==
    /\ mode = "crawl" /\ stack # <<>> /\ Top.pc = "links"
    /\ \E ls \in LinkLists :
        /\ linksLog' = Append(linksLog, [url |-> Top.current_url,
                                         depth |-> Top.current_depth, ok |-> TRUE])
        /\ encountered' = encountered \cup Range(ls)
        /\ shallow' = IF Top.current_depth < depth THEN shallow \cup Range(ls)
                                                  ELSE shallow
        /\ stack' = SetTop([Top EXCEPT !.pc = "loop", !.links = ls, !.idx = 1])
    /\ UNCHANGED <<fixedVars, visited, results,
                   visitLog, extractLog>>

\* Line 180 with lines 145-147: the fetch raises and get_all_links returns [].
CrawlLinksFail ==
    /\ mode = "crawl" /\ stack # <<>> /\ Top.pc = "links"
    /\ linksLog' = Append(linksLog, [url |-> Top.current_url,
                                     depth |-> Top.current_depth, ok |-> FALSE])
    /\ stack' = SetTop([Top EXCEPT !.pc = "loop", !.links = <<>>, !.idx = 1])
    /\ UNCHANGED <<fixedVars, visited, results,
                   visitLog, extractLog, encountered, shallow>>

\* Lines 183-186: the loop's test holds for the current link; crawl is called.
CrawlRecurse ==
    /\ mode = "crawl" /\ stack # <<>> /\ Top.pc = "loop"
    /\ Top.idx <= Len(Top.links)
    /\ ShouldRecurse(Top.links[Top.idx])
    /\ stack' = Append(SetTop([Top EXCEPT !.pc = "call"]),
                       Frame(Top.links[Top.idx], Top.current_depth + 1))
    /\ UNCHANGED <<fixedVars, visited, results,
                   visitLog, extractLog, linksLog, encountered, shallow>>

\* Lines 183-185: the loop's test fails; the loop moves to the next link.
CrawlSkip ==
    /\ mode = "crawl" /\ stack # <<>> /\ Top.pc = "loop"
    /\ Top.idx <= Len(Top.links)
    /\ ~ShouldRecurse(Top.links[Top.idx])
    /\ stack' = SetTop([Top EXCEPT !.idx = @ + 1])
    /\ UNCHANGED <<fixedVars, visited, results,
                   visitLog, extractLog, linksLog, encountered, shallow>>

\* Line 183 exhausted: the call returns (the outermost one to line 189).
CrawlReturn ==
    /\ mode = "crawl" /\ stack # <<>> /\ Top.pc = "loop"
    /\ Top.idx > Len(Top.links)
    /\ stack' = Return(stack)
    /\ UNCHANGED <<fixedVars, visited, results,
                   visitLog, extractLog, linksLog, encountered, shallow>>

Next ==
    \/ CrawlReturnEarly
    \/ CrawlVisit
    \/ CrawlExtract
    \/ CrawlLinks
    \/ CrawlLinksFail
    \/ CrawlRecurse
    \/ CrawlSkip
    \/ CrawlReturn

Spec == Init /\ [][Next]_vars

\* crawl() is a sequential program: it runs on until it returns.
FairSpec == Spec /\ WF_vars(Next)

\* scrape_all_links_and_content has returned `results` (line 189).
Done == mode = "crawl" /\ stack = <<>>

----------------------------------------------------------------------------
(***************************************************************************)
(* extract_article_content.  A text is a sequence of characters; an        *)
(* element is a tag with its own text and its child elements.  The         *)
(* children of the content div are tags (the loop reads .name and, for     *)
(* other tags, .children).                                                 *)
(***************************************************************************)
MaxChildren == 3

Whitespace == {" ", "\n"}

RECURSIVE LStrip(_)
LStrip(t) == IF t # <<>> /\ Head(t) \in Whitespace THEN LStrip(Tail(t)) ELSE t

RECURSIVE RStrip(_)
RStrip(t) ==
    IF t # <<>> /\ t[Len(t)] \in Whitespace THEN RStrip(SubSeq(t, 1, Len(t) - 1))
    ELSE t

\* str.strip()
Strip(t) == RStrip(LStrip(t))

\* ''.join(ts)
RECURSIVE Concat(_)
Concat(ts) == IF ts = <<>> THEN <<>> ELSE Head(ts) \o Concat(Tail(ts))

\* sep.join(ts)
RECURSIVE Join(_, _)
Join(sep, ts) ==
    IF ts = <<>> THEN <<>>
    ELSE IF Len(ts) = 1 THEN ts[1]
    ELSE ts[1] \o sep \o Join(sep, Tail(ts))

Tag(n, t, cs) == [name |-> n, text |-> t, children |-> cs]

Headings == {"h1", "h2", "h3", "h4", "h5", "h6"}
Skipped == {"script", "style", "table", "figure"}

\* element.get_text(strip=True) of a tag that holds one string.
GetText(e) == Strip(e.text)

\* element.find_all('li') of a list whose items are its children.
FindAllLi(e) == SelectSeq(e.children, LAMBDA c : c.name = "li")

\* The nested function extract_text (lines 74-85).
RECURSIVE extract_text(_)
extract_text(element) ==
    IF element.name \in Skipped THEN <<>>
    ELSE IF element.name = "p" THEN GetText(element)
    ELSE IF element.name = "ul"
        THEN LET list_items == FindAllLi(element)
             IN Join(<<"\n">>, [i \in 1..Len(list_items) |->
                                   <<"-", " ">> \o GetText(list_items[i])])
    ELSE IF element.name \in Headings
        THEN <<"\n">> \o GetText(element) \o <<"\n">>
    ELSE Concat([i \in 1..Len(element.children) |->
                    extract_text(element.children[i])])

\* A variant that keeps the open section even when it is empty.
CloseSection_always(secs, heading, paras) ==
    Append(secs, [heading |-> heading, content |-> paras])

\* Lines 91-93 and 103-104: the open section is kept if it has content.
CloseSection(secs, heading, paras) ==
    IF paras # <<>> THEN Append(secs, [heading |-> heading, content |-> paras])
    ELSE secs

\* The tags the modelled pages are built from.
HeadA == Tag("h2", <<"A">>, <<>>)
HeadB == Tag("h3", <<" ", "B", "\n">>, <<>>)
ParaX == Tag("p", <<"x", " ">>, <<>>)
ParaBlank == Tag("p", <<" ">>, <<>>)
Item(c) == Tag("li", <<c>>, <<>>)
List3 == Tag("ul", <<>>, <<Item("i"), Item("j"), Item("k")>>)
Table == Tag("table", <<>>, <<ParaX>>)
DivPara == Tag("div", <<"d">>, <<ParaX, Table, ParaX>>)
DivHead == Tag("div", <<>>, <<HeadA>>)
DivBare == Tag("div", <<"d">>, <<>>)

Elements == {HeadA, HeadB, ParaX, ParaBlank, List3, Table, DivPara, DivHead, DivBare}

ChildLists == UNION {[1..n -> Elements] : n \in 0..MaxChildren}

\* A fetched page: did requests.get return, the text of h1#firstHeading if
\* there is one, the children of div.mw-parser-output if there is one.
Docs ==
    [fetched : {TRUE}, h1 : {None, Some(<<" ", "T">>)},
     div : {Some(cs) : cs \in ChildLists} \cup {None}]
    \cup {[fetched |-> FALSE, h1 |-> None, div |-> None]}

InitExtract ==
    /\ mode = "extract"
    /\ doc \in Docs
    /\ epc = "start" /\ pos = 0 /\ title = <<>> /\ content = <<>>
    /\ current_heading = <<>> /\ current_content = <<>> /\ article = None
    /\ CrawlIdle
    /\ ClassifyIdle

\* Line 53 raises; lines 116-118 return None.
ExtractFail ==
    /\ mode = "extract" /\ epc = "start"
    /\ ~doc.fetched
    /\ article' = None
    /\ epc' = "done"
    /\ UNCHANGED <<mode, crawlVars, classifyVars, doc, pos, title, content,
                   current_heading, current_content>>

\* Lines 57-63: there is no content div.
ExtractNoDiv ==
    /\ mode = "extract" /\ epc = "start"
    /\ doc.fetched /\ doc.div = None
    /\ title' = IF doc.h1 # None THEN Strip(doc.h1[1]) ELSE <<"No Title">>
    /\ article' = None
    /\ epc' = "done"
    /\ UNCHANGED <<mode, crawlVars, classifyVars, doc, pos, content,
                   current_heading, current_content>>

\* Lines 57-71: title, content div and the loop's variables.
ExtractBegin ==
    /\ mode = "extract" /\ epc = "start"
    /\ doc.fetched /\ doc.div # None
    /\ title' = IF doc.h1 # None THEN Strip(doc.h1[1]) ELSE <<"No Title">>
    /\ content' = <<>>
    /\ current_heading' = title'
    /\ current_content' = <<>>
    /\ pos' = 1
    /\ epc' = "loop"
    /\ UNCHANGED <<mode, crawlVars, classifyVars, doc, article>>

\* Lines 89-95: the child is a heading.
ExtractHeading ==
    /\ mode = "extract" /\ epc = "loop" /\ pos <= Len(doc.div[1])
    /\ LET element == doc.div[1][pos] IN
        /\ element.name \in Headings
        /\ content' = CloseSection(content, current_heading, current_content)
        /\ current_content' = <<>>
        /\ current_heading' = GetText(element)
    /\ pos' = pos + 1
    /\ UNCHANGED <<mode, crawlVars, classifyVars, doc, epc, title, article>>

\* Lines 96-100: the child is any other tag.
ExtractOther ==
    /\ mode = "extract" /\ epc = "loop" /\ pos <= Len(doc.div[1])
    /\ LET element == doc.div[1][pos]
           text == extract_text(element) IN
        /\ element.name \notin Headings
        /\ current_content' = IF Strip(text) # <<>> THEN Append(current_content, text)
                              ELSE current_content
    /\ pos' = pos + 1
    /\ UNCHANGED <<mode, crawlVars, classifyVars, doc, epc, title, content,
                   current_heading, article>>

\* Lines 102-114: the last section, and the returned value.
ExtractFinish ==
    /\ mode = "extract" /\ epc = "loop" /\ pos > Len(doc.div[1])
    /\ content' = CloseSection(content, current_heading, current_content)
    /\ article' = IF content' = <<>> THEN None
                  ELSE Some([url |-> 1, title |-> title, content |-> content'])
    /\ epc' = "done"
    /\ UNCHANGED <<mode, crawlVars, classifyVars, doc, pos, title,
                   current_heading, current_content>>

NextExtract ==
    \/ ExtractFail
    \/ ExtractNoDiv
    \/ ExtractBegin
    \/ ExtractHeading
    \/ ExtractOther
    \/ ExtractFinish

SpecExtract == InitExtract /\ [][NextExtract]_vars

----------------------------------------------------------------------------
(***************************************************************************)
(* is_valid_article.  A url is a sequence of pieces of text; every piece   *)
(* of every pattern is a piece, and no piece is part of another, so a      *)
(* pattern occurs in the url's text exactly where its pieces occur in      *)
(* order.                                                                  *)
(***************************************************************************)
MaxHrefLen == 3

\* exclude_patterns (lines 18-29).
exclude_patterns ==
    << <<"/wiki/", "Special:">>, <<"/wiki/", "Help:">>, <<"/wiki/", "Wikipedia:">>,
       <<"/wiki/", "Portal:">>, <<"/wiki/", "Category:">>, <<"/wiki/", "Template:">>,
       <<"/wiki/", "File:">>, <<"/wiki/", "Talk:">>, <<"/wiki/", "User:">>,
       <<"/wiki/", "Main_Page">> >>

Pieces == {"/wiki/", "Special:", "Help:", "Wikipedia:", "Portal:", "Category:",
           "Template:", "File:", "Talk:", "User:", "Main_Page", "x"}

Hrefs == UNION {[1..n -> Pieces] : n \in 1..MaxHrefLen}

\* A variant that matches at the start of the url only, as re.match does.
re_search_match(pattern, url) ==
    Len(pattern) <= Len(url) /\ SubSeq(url, 1, Len(pattern)) = pattern

\* re.search(pattern, url) for a pattern without metacharacters (line 33).
re_search(pattern, url) ==
    \E i \in 1..(Len(url) - Len(pattern) + 1) :
        SubSeq(url, i, i + Len(pattern) - 1) = pattern

\* Lines 32-36.
is_valid_article(url) ==
    ~\E k \in 1..Len(exclude_patterns) : re_search(exclude_patterns[k], url)

InitClassify ==
    /\ mode = "classify"
    /\ href \in Hrefs
    /\ valid = "unset"
    /\ CrawlIdle
    /\ ExtractIdle

\* A call is_valid_article(href) that returns False at line 34.
ClassifyExcluded ==
    /\ mode = "classify" /\ valid = "unset"
    /\ ~is_valid_article(href)
    /\ valid' = "False"
    /\ UNCHANGED <<mode, crawlVars, extractVars, href>>

\* A call is_valid_article(href) that returns True at line 36.
ClassifyArticle ==
    /\ mode = "classify" /\ valid = "unset"
    /\ is_valid_article(href)
    /\ valid' = "True"
    /\ UNCHANGED <<mode, crawlVars, extractVars, href>>

NextClassify == ClassifyExcluded \/ ClassifyArticle

SpecClassify == InitClassify /\ [][NextClassify]_vars

----------------------------------------------------------------------------
(***************************************************************************)
(* Properties of the crawl.                                                *)
(***************************************************************************)
Min(a, b) == IF a < b THEN a ELSE b

\* The number of entries of a history that are about URL u.
Count(log, u) == Cardinality({i \in 1..Len(log) : log[i].url = u})

Urls(log) == {log[i].url : i \in 1..Len(log)}

\* C1: the result mapping never holds more than max_count entries, during
\* the crawl and when it is returned.
C1_ResultBound == mode = "crawl" => Len(results) <= max_urls

\* C1: the crawl has returned a full result mapping and left an encountered
\* URL unvisited.
C1_Witness ==
    Done /\ Len(results) = max_urls /\ encountered \ visited # {}

\* C2: each URL is marked visited, extracted and link-collected at most once.
C2_VisitedOnce ==
    \A u \in URLs :
        /\ Count(visitLog, u) <= 1
        /\ Count(extractLog, u) <= 1
        /\ Count(linksLog, u) <= 1

\* C2: a page whose links were all examined links to itself and to its
\* parent, and its parent lists it twice.
C2_Witness ==
    /\ mode = "crawl" /\ Len(stack) = 2
    /\ Top.pc = "loop" /\ Top.idx > Len(Top.links)
    /\ Top.current_url \in Range(Top.links)
    /\ stack[1].current_url \in Range(Top.links)
    /\ stack[1].links = <<Top.current_url, Top.current_url>>

\* C3: every URL marked visited, extracted or link-collected is processed at
\* a depth between 0 and max_depth; with max_depth = 0 that is the seed only.
C3_DepthBound ==
    mode = "crawl" =>
        /\ \A i \in 1..Len(visitLog) :
               visitLog[i].depth >= 0 /\ visitLog[i].depth <= depth
        /\ \A i \in 1..Len(extractLog) :
               extractLog[i].depth >= 0 /\ extractLog[i].depth <= depth
        /\ \A i \in 1..Len(linksLog) :
               linksLog[i].depth >= 0 /\ linksLog[i].depth <= depth
        /\ depth = 0 =>
               Urls(visitLog) \cup Urls(extractLog) \cup Urls(linksLog)
                   \subseteq {start_url}

\* C3: with max_depth = 0, crawl is entered at depth 1 for an unvisited link
\* while the result count is below the maximum.
C3_Witness ==
    /\ mode = "crawl" /\ depth = 0 /\ Len(stack) = 2
    /\ Top.pc = "entry" /\ Top.current_depth = 1
    /\ Top.current_url \notin visited /\ Len(results) < max_urls

\* C4: every key of the result mapping is in the visited set, a URL whose
\* extraction returned None is not a key, and every step leaves the visited
\* set equal or adds exactly one URL.
C4_KeysVisited ==
    /\ [](/\ Range(results) \subseteq visited
          /\ \A i \in 1..Len(extractLog) :
                 ~extractLog[i].ok => extractLog[i].url \notin Range(results))
    /\ [][/\ visited \subseteq visited'
          /\ Cardinality(visited' \ visited) <= 1]_vars

\* C4: the crawl has returned with a visited URL, whose extraction returned
\* None, that is no key of a non-empty result mapping.
C4_Witness ==
    /\ Done /\ results # <<>>
    /\ \E i \in 1..Len(extractLog) :
           /\ ~extractLog[i].ok
           /\ extractLog[i].url \in visited \ Range(results)

\* C5 as stated: when the crawl finishes, the visited set is as large as the
\* set of distinct URLs encountered.
C5_Original == Done => Cardinality(visited) = Cardinality(encountered)

\* C5 as amended: when the crawl finishes, every visited URL is among the
\* URLs encountered, so the visited set is at most as large; and if the
\* result count stayed below max_count, the visited set is the seed plus
\* every URL collected from a page visited at a depth below max_depth.
C5_Amended ==
    Done =>
        /\ visited \subseteq encountered
        /\ Cardinality(visited) <= Cardinality(encountered)
        /\ Len(results) < max_urls => visited = {start_url} \cup shallow

\* C5: the crawl has returned below the maximum count and an encountered URL
\* was never visited.
C5_Witness ==
    Done /\ Len(results) < max_urls /\ encountered \ visited # {}

\* The frame of the call that stack s is in after its top call has returned.
Caller(s) == s[Len(s) - 1]

\* C6: a URL whose extraction returned None stays visited and out of the
\* result mapping, and link collection is still performed on it; every
\* unvisited collected link is recursed into at depth+1 while the result
\* count is below max_count; a failed link collection yields an empty list
\* and the caller goes on with its next link.
C6_FailureGoesOn ==
    /\ [](\A i \in 1..Len(extractLog) :
              ~extractLog[i].ok =>
                  /\ extractLog[i].url \in visited
                  /\ extractLog[i].url \notin Range(results)
                  /\ \/ extractLog[i].url \in Urls(linksLog)
                     \/ /\ stack # <<>>
                        /\ Top.current_url = extractLog[i].url
                        /\ Top.pc = "links")
    /\ [][/\ (/\ stack # <<>> /\ Top.pc = "loop" /\ Top.idx <= Len(Top.links)
              /\ Top.links[Top.idx] \notin visited
              /\ Len(results) < max_urls)
             => /\ Len(stack') = Len(stack) + 1
                /\ stack'[Len(stack')] =
                       Frame(Top.links[Top.idx], Top.current_depth + 1)
          /\ (/\ Len(linksLog') = Len(linksLog) + 1
              /\ ~linksLog'[Len(linksLog')].ok)
             => /\ stack'[Len(stack')].links = <<>>
                /\ stack'[Len(stack')].pc = "loop"
          /\ (/\ Len(stack) > 1 /\ Top.pc = "loop" /\ Top.links = <<>>)
             => /\ Len(stack') = Len(stack) - 1
                /\ stack'[Len(stack')] =
                       [Caller(stack) EXCEPT !.idx = @ + 1, !.pc = "loop"]
         ]_vars

\* C6: the seed's extraction returned None, its first link was recursed
\* into, that page's link collection failed, and the seed's loop is at its
\* second link.
C6_Witness ==
    /\ mode = "crawl" /\ Len(stack) = 1
    /\ Top.pc = "loop" /\ Top.idx = 2 /\ Len(Top.links) = 2
    /\ Len(extractLog) = 2 /\ ~extractLog[1].ok
    /\ Len(linksLog) = 2 /\ ~linksLog[2].ok

\* The URLs marked visited, in order.
VisitOrder == [i \in 1..Len(visitLog) |-> visitLog[i].url]

C10_Terminates ==
    /\ <>Done
    /\ [](\A u \in URLs : Count(extractLog, u) <= 1 /\ Count(linksLog, u) <= 1)
    /\ [][Len(results) >= max_urls =>
              /\ visited' = visited
              /\ results' = results
              /\ visitLog' = visitLog
              /\ extractLog' = extractLog]_vars

\* C10: the result count has reached max_count while a call's loop still
\* has an unvisited link to examine.
C10_Witness ==
    /\ mode = "crawl" /\ stack # <<>>
    /\ Len(results) >= max_urls
    /\ Top.pc = "loop" /\ Top.idx <= Len(Top.links)
    /\ Top.links[Top.idx] \notin visited

----------------------------------------------------------------------------
(***************************************************************************)
(* Properties of extract_article_content.                                  *)
(***************************************************************************)

\* The children are a heading, a non-empty paragraph and a heading.
HeadingParaHeading(cs) ==
    /\ Len(cs) = 3
    /\ cs[1].name \in Headings
    /\ cs[2].name = "p" /\ Strip(cs[2].text) # <<>>
    /\ cs[3].name \in Headings

ReturnedFor3 ==
    /\ mode = "extract" /\ epc = "done"
    /\ doc.fetched /\ doc.div # None
    /\ HeadingParaHeading(doc.div[1])

\* C8 as stated: for a heading, a non-empty paragraph and a heading, extract
\* produces two sections: the first heading with the paragraph, the second
\* heading with no paragraphs.
C8_Original ==
    ReturnedFor3 =>
        /\ article # None
        /\ LET cs == doc.div[1]
               secs == article[1].content
           IN /\ Len(secs) = 2
              /\ secs[1] = [heading |-> GetText(cs[1]), content |-> <<GetText(cs[2])>>]
              /\ secs[2] = [heading |-> GetText(cs[3]), content |-> <<>>]

\* C8 as amended: for a heading, a non-empty paragraph and a heading, extract
\* produces exactly one section, the first heading with the paragraph; the
\* second heading, having no content, yields no section.
C8_Amended ==
    ReturnedFor3 =>
        /\ article # None
        /\ LET cs == doc.div[1]
           IN article[1].content =
                  <<[heading |-> GetText(cs[1]), content |-> <<GetText(cs[2])>>]>>

\* C8: extract has returned an article for such a page.
C8_Witness == ReturnedFor3 /\ article # None

----------------------------------------------------------------------------
(***************************************************************************)
(* Properties of is_valid_article.                                         *)
(***************************************************************************)
IsPrefix(pre, s) == Len(pre) <= Len(s) /\ SubSeq(s, 1, Len(pre)) = pre

\* The nine namespace patterns, and the main page's path.
NamespacePrefixes == {exclude_patterns[k] : k \in 1..9}
MainPagePath == exclude_patterns[10]

\* C9 as stated: is_article(href) is false exactly when href starts with one
\* of the nine namespace prefixes or equals the main page path.
C9_Original ==
    (mode = "classify" /\ valid # "unset") =>
        (valid = "False" <=>
            \/ \E pre \in NamespacePrefixes : IsPrefix(pre, href)
            \/ href = MainPagePath)

\* Text p occurs in text s.
Occurs(p, s) ==
    \E i \in 0..(Len(s) - Len(p)) : \A j \in 1..Len(p) : s[i + j] = p[j]

\* C9 as amended: is_article(href) is false exactly when one of the ten
\* patterns (the nine namespace prefixes and the main page path) occurs
\* anywhere in href, and true for every other href.
C9_Amended ==
    (mode = "classify" /\ valid # "unset") =>
        (valid = "False" <=>
            \E k \in 1..Len(exclude_patterns) : Occurs(exclude_patterns[k], href))

\* C9: an href that neither starts with a namespace prefix nor equals the
\* main page path has been classified as no article.
C9_Witness ==
    /\ mode = "classify" /\ valid = "False"
    /\ ~\E pre \in NamespacePrefixes : IsPrefix(pre, href)
    /\ href # MainPagePath

====
